---- MODULE Spec2Model ----
(***************************************************************************)
(* A model of the bar menu application.                                    *)
(*                                                                         *)
(*   db_utils.py  the SQLite store: tables recipes and recipe_ingredients, *)
(*                save_new_recipe, delete_recipe, update_whole_recipe and  *)
(*                migrate_json_to_db with its categorisation.              *)
(*   bar.py       the Streamlit page: the menu.json list, the add/edit     *)
(*                form with its featured-clearing pass, and delete.        *)
(*                                                                         *)
(* Text is modelled as a sequence of one-character strings, so that the    *)
(* substring tests and the regular expressions of the source are computed  *)
(* on characters.                                                          *)
(***************************************************************************)
EXTENDS Integers, Sequences, FiniteSets, TLC

VARIABLES
  db,            \* bar.db: the tables and their AUTOINCREMENT counters
  menu_exists,   \* os.path.exists("menu.json")
  menu_json,     \* the list of records menu.json holds
  add_mode,      \* st.session_state.add_mode, per browser session
  edit_mode,     \* st.session_state.edit_mode, per browser session
  editing_item,  \* st.session_state.editing_item, per browser session
  last           \* the last operation run, its arguments and its result

vars == <<db, menu_exists, menu_json, add_mode, edit_mode, editing_item, last>>

(***************************************************************************)
(* Bounds of the model.                                                    *)
(***************************************************************************)
\* AUTOINCREMENT ids handed out by table recipes stay within 1..MaxRecipeId.
MaxRecipeId == 2
\* Number of records the menu.json list may hold.
MaxMenu == 3

(***************************************************************************)
(* Python and SQL values.                                                  *)
(***************************************************************************)
\* Python None / SQL NULL in a text column: no text equals it, since every
\* element of a text is a single character.
None == <<"<None>">>

\* dict.get(key, default)
Get(d, k, default) == IF k \in DOMAIN d THEN d[k] ELSE default

Min(S) == CHOOSE x \in S : \A y \in S : x <= y

(***************************************************************************)
(* Characters.                                                             *)
(***************************************************************************)
Digits == <<"0", "1", "2", "3", "4", "5", "6", "7", "8", "9">>

UpperCase ==
  <<"A", "B", "C", "D", "E", "F", "G", "H", "I", "J", "K", "L", "M",
    "N", "O", "P", "Q", "R", "S", "T", "U", "V", "W", "X", "Y", "Z">>

LowerCase ==
  <<"a", "b", "c", "d", "e", "f", "g", "h", "i", "j", "k", "l", "m",
    "n", "o", "p", "q", "r", "s", "t", "u", "v", "w", "x", "y", "z">>

\* \d
IsDigit(c) == \E i \in 1..10 : Digits[i] = c

DigitVal(c) == (CHOOSE i \in 1..10 : Digits[i] = c) - 1

\* \s
IsSpace(c) == c \in {" ", "\t", "\n", "\r", "\f"}

\* re.IGNORECASE compares letters by their lower-case form.
Lower(c) ==
  IF \E i \in 1..26 : UpperCase[i] = c
  THEN LowerCase[CHOOSE i \in 1..26 : UpperCase[i] = c]
  ELSE c

\* Python's `sub in text`.
Contains(sub, text) ==
  \E p \in 0..(Len(text) - Len(sub)) :
    \A i \in 1..Len(sub) : text[p + i] = sub[i]

\* str.strip() == "": the text holds only whitespace.
IsBlank(text) == \A i \in 1..Len(text) : IsSpace(text[i])

(***************************************************************************)
(* parse_spec_line: re.match, ignoring case, of a run of digits and dots   *)
(* (group 1), optional whitespace, an optional unit among oz, dash,        *)
(* dashes, cl, ml (group 2), at least one whitespace character and the     *)
(* rest of the line (group 3); followed by float(group 1).                 *)
(***************************************************************************)
Units ==
  << <<"o", "z">>, <<"d", "a", "s", "h">>, <<"d", "a", "s", "h", "e", "s">>,
     <<"c", "l">>, <<"m", "l">> >>

\* Length of the longest run of [\d\.] characters that starts at position p.
NumberRun(line, p) ==
  CHOOSE n \in 0..(Len(line) - p + 1) :
    /\ \A i \in p..(p + n - 1) : IsDigit(line[i]) \/ line[i] = "."
    /\ \/ p + n > Len(line)
       \/ ~(IsDigit(line[p + n]) \/ line[p + n] = ".")

\* Length of the longest run of \s characters that starts at position p.
SpaceRun(line, p) ==
  CHOOSE n \in 0..(Len(line) - p + 1) :
    /\ \A i \in p..(p + n - 1) : IsSpace(line[i])
    /\ \/ p + n > Len(line)
       \/ ~IsSpace(line[p + n])

\* The unit alternative u matches at position p, ignoring case.
UnitAt(line, p, u) ==
  /\ p + Len(u) - 1 <= Len(line)
  /\ \A i \in 1..Len(u) : Lower(line[p + i - 1]) = u[i]

\* Group 3 from position p: everything up to the end of the line ("." does
\* not match a newline).
DotStar(line, p) ==
  LET stops == {i \in p..Len(line) : line[i] = "\n"}
  IN  IF stops = {} THEN SubSeq(line, p, Len(line))
      ELSE SubSeq(line, p, Min(stops) - 1)

\* float(text) raises ValueError unless text, made of digits and dots,
\* holds at least one digit and at most one dot.
FloatRaises(text) ==
  \/ Cardinality({i \in 1..Len(text) : text[i] = "."}) > 1
  \/ ~\E i \in 1..Len(text) : IsDigit(text[i])

RECURSIVE DigitsValue(_)
DigitsValue(text) ==
  IF text = <<>> THEN 0
  ELSE LET front == SubSeq(text, 1, Len(text) - 1)
           c == text[Len(text)]
       IN  IF c = "." THEN DigitsValue(front)
           ELSE 10 * DigitsValue(front) + DigitVal(c)

\* A decimal num / 10^exp without trailing zeros in the fraction, so that
\* equal numbers have one representation.
RECURSIVE Normal(_)
Normal(a) ==
  IF a.exp > 0 /\ a.num % 10 = 0
  THEN Normal([num |-> a.num \div 10, exp |-> a.exp - 1])
  ELSE a

\* float(text) for a text float() accepts.
Float(text) ==
  LET dots == {i \in 1..Len(text) : text[i] = "."}
  IN  Normal([num |-> DigitsValue(text),
              exp |-> IF dots = {} THEN 0 ELSE Len(text) - Min(dots)])

Zero == [num |-> 0, exp |-> 0]

\* The result of parse_spec_line: raises is TRUE when float() raises
\* ValueError, and then the other fields mean nothing.
parse_spec_line(spec_line) ==
  LET unparsed == [raises |-> FALSE, amount |-> Zero, unit |-> <<>>,
                   ingredient |-> spec_line]
      n == NumberRun(spec_line, 1)
      w == SpaceRun(spec_line, n + 1)
      p == n + w + 1
      \* alternatives that match at p and are followed by the \s of \s+
      us == {k \in 1..Len(Units) :
               /\ UnitAt(spec_line, p, Units[k])
               /\ p + Len(Units[k]) <= Len(spec_line)
               /\ IsSpace(spec_line[p + Len(Units[k])])}
      group1 == SubSeq(spec_line, 1, n)
  IN  IF n = 0 THEN unparsed
      ELSE IF us # {}
      THEN LET q == p + Len(Units[Min(us)])
           IN  IF FloatRaises(group1)
               THEN [unparsed EXCEPT !.raises = TRUE]
               ELSE [raises |-> FALSE, amount |-> Float(group1),
                     unit |-> SubSeq(spec_line, p, q - 1),
                     ingredient |->
                       DotStar(spec_line, q + SpaceRun(spec_line, q))]
      ELSE IF w >= 1
      \* no unit: \s* gives back its last character to \s+
      THEN IF FloatRaises(group1)
           THEN [unparsed EXCEPT !.raises = TRUE]
           ELSE [raises |-> FALSE, amount |-> Float(group1), unit |-> <<>>,
                 ingredient |-> DotStar(spec_line, p)]
      ELSE unparsed

(***************************************************************************)
(* The store, db_utils.py.  A row of recipes holds id, name, instructions, *)
(* category, description, price, image_url and spirit (glassware and       *)
(* is_favorite are written by no statement of the source and left out).    *)
(* A row of recipe_ingredients holds recipe_id, amount, unit, ingredient   *)
(* and raw_text; its own id is read by no statement of the source and is   *)
(* left out, the rows being kept in rowid order.  seq_recipes is the       *)
(* sqlite_sequence counter of recipes.id.  The category is one of a closed *)
(* set of labels and is modelled as a string.                              *)
(***************************************************************************)
EmptyDb ==
  [recipes |-> <<>>, recipe_ingredients |-> <<>>, seq_recipes |-> 0]

\* sqlite3.connect: a transaction on the store as it is; err is set by the
\* first statement that raises, and no later statement runs.
Connect(d) == [db |-> d, err |-> FALSE]

\* DELETE FROM recipes WHERE id = ?: the rows that stay, in their order.
RECURSIVE DeleteById(_, _)
DeleteById(rows, id) ==
  IF rows = <<>> THEN <<>>
  ELSE IF Head(rows).id = id THEN DeleteById(Tail(rows), id)
       ELSE <<Head(rows)>> \o DeleteById(Tail(rows), id)

\* DELETE FROM recipe_ingredients WHERE recipe_id = ?
RECURSIVE DeleteByRecipeId(_, _)
DeleteByRecipeId(rows, recipe_id) ==
  IF rows = <<>> THEN <<>>
  ELSE IF Head(rows).recipe_id = recipe_id
       THEN DeleteByRecipeId(Tail(rows), recipe_id)
       ELSE <<Head(rows)>> \o DeleteByRecipeId(Tail(rows), recipe_id)

\* SELECT raw_text FROM recipe_ingredients WHERE recipe_id = ?
RECURSIVE RawTextsOf(_, _)
RawTextsOf(rows, recipe_id) ==
  IF rows = <<>> THEN <<>>
  ELSE IF Head(rows).recipe_id = recipe_id
       THEN <<Head(rows).raw_text>> \o RawTextsOf(Tail(rows), recipe_id)
       ELSE RawTextsOf(Tail(rows), recipe_id)

AllIds(rows) == {rows[i].id : i \in DOMAIN rows}

\* SELECT id FROM recipes WHERE name = ?   (NULL equals nothing)
SelectIdByName(d, name) ==
  IF name = None THEN {}
  ELSE {d.recipes[i].id : i \in {j \in DOMAIN d.recipes :
                                   d.recipes[j].name = name}}

\* INSERT INTO recipes: name is NOT NULL UNIQUE, id is AUTOINCREMENT.
InsertRecipe(tx, row) ==
  IF tx.err THEN tx
  ELSE IF row.name = None \/ SelectIdByName(tx.db, row.name) # {}
  THEN [tx EXCEPT !.err = TRUE]
  ELSE LET id == tx.db.seq_recipes + 1
       IN  [tx EXCEPT
              !.db.recipes = Append(@, [row EXCEPT !.id = id]),
              !.db.seq_recipes = id]

\* parse_spec_line(spec) and INSERT INTO recipe_ingredients.
InsertIngredient(tx, recipe_id, spec) ==
  IF tx.err THEN tx
  ELSE LET parsed == parse_spec_line(spec)
       IN  IF parsed.raises THEN [tx EXCEPT !.err = TRUE]
           ELSE [tx EXCEPT
                   !.db.recipe_ingredients =
                     Append(@, [recipe_id |-> recipe_id,
                                amount |-> parsed.amount,
                                unit |-> parsed.unit,
                                ingredient |-> parsed.ingredient,
                                raw_text |-> spec])]

\* for spec in recipe_data.get('specs', []): insert it.
RECURSIVE InsertSpecs(_, _, _)
InsertSpecs(tx, recipe_id, specs) ==
  IF specs = <<>> THEN tx
  ELSE InsertSpecs(InsertIngredient(tx, recipe_id, Head(specs)),
                   recipe_id, Tail(specs))

\* save_new_recipe written as an upsert: a recipe of the same name is
\* replaced by the new one instead of being kept.
save_new_recipe_replacing(d, recipe_data) ==
  LET name == Get(recipe_data, "name", None)
      old == SelectIdByName(d, name)
      cleared == [d EXCEPT
                    !.recipes = SelectSeq(@, LAMBDA r : r.id \notin old),
                    !.recipe_ingredients =
                      SelectSeq(@, LAMBDA r : r.recipe_id \notin old)]
      row == [id |-> 0, name |-> name,
              instructions |-> Get(recipe_data, "instructions", <<>>),
              category |-> Get(recipe_data, "category", "Classics"),
              description |-> Get(recipe_data, "description", <<>>),
              price |-> Get(recipe_data, "price", <<>>),
              image_url |-> Get(recipe_data, "image_url", <<>>),
              spirit |-> Get(recipe_data, "spirit", <<>>)]
      tx1 == InsertRecipe(Connect(cleared), row)
      tx2 == InsertSpecs(tx1, tx1.db.seq_recipes,
                         Get(recipe_data, "specs", <<>>))
  IN  IF tx2.err THEN [db |-> d, ret |-> FALSE]
      ELSE [db |-> tx2.db, ret |-> TRUE]

\* save_new_recipe(recipe_data): the store it leaves and what it returns.
\* An exception is caught, and conn.close() without commit rolls back.
save_new_recipe(d, recipe_data) ==
  LET name == Get(recipe_data, "name", None)
      row == [id |-> 0, name |-> name,
              instructions |-> Get(recipe_data, "instructions", <<>>),
              category |-> Get(recipe_data, "category", "Classics"),
              description |-> Get(recipe_data, "description", <<>>),
              price |-> Get(recipe_data, "price", <<>>),
              image_url |-> Get(recipe_data, "image_url", <<>>),
              spirit |-> Get(recipe_data, "spirit", <<>>)]
      tx1 == InsertRecipe(Connect(d), row)
      tx2 == InsertSpecs(tx1, tx1.db.seq_recipes,
                         Get(recipe_data, "specs", <<>>))
  IN  IF SelectIdByName(d, name) # {} THEN [db |-> d, ret |-> FALSE]
      ELSE IF tx2.err THEN [db |-> d, ret |-> FALSE]
      ELSE [db |-> tx2.db, ret |-> TRUE]

\* delete_recipe without its first statement: the ingredient rows stay.
delete_recipe_row_only(d, recipe_id) ==
  [db |-> [d EXCEPT !.recipes = DeleteById(@, recipe_id)], ret |-> TRUE]

\* delete_recipe(recipe_id): both DELETE statements, then commit.
delete_recipe(d, recipe_id) ==
  [db |-> [d EXCEPT
             !.recipe_ingredients = DeleteByRecipeId(@, recipe_id),
             !.recipes = DeleteById(@, recipe_id)],
   ret |-> TRUE]

\* UPDATE recipes SET name=?, category=?, ... WHERE id=?
\* The tuple of parameters reads data['name'] ... data['instructions'],
\* which raises KeyError for a missing key before the statement runs.
UpdateRecipe(tx, recipe_id, data) ==
  IF tx.err THEN tx
  ELSE IF ~({"name", "category", "description", "price", "image_url",
             "instructions"} \subseteq DOMAIN data)
  THEN [tx EXCEPT !.err = TRUE]
  ELSE IF recipe_id \notin AllIds(tx.db.recipes) THEN tx
  ELSE IF \/ data.name = None
          \/ SelectIdByName(tx.db, data.name) \ {recipe_id} # {}
  THEN [tx EXCEPT !.err = TRUE]
  ELSE [tx EXCEPT !.db.recipes =
          [i \in DOMAIN @ |->
             IF @[i].id = recipe_id
             THEN [id |-> recipe_id, name |-> data.name,
                   instructions |-> data.instructions,
                   category |-> data.category,
                   description |-> data.description,
                   price |-> data.price,
                   image_url |-> data.image_url,
                   spirit |-> Get(data, "spirit", <<>>)]
             ELSE @[i]]]

\* DELETE FROM recipe_ingredients WHERE recipe_id=?
DeleteIngredients(tx, recipe_id) ==
  IF tx.err THEN tx
  ELSE [tx EXCEPT !.db.recipe_ingredients =
          DeleteByRecipeId(@, recipe_id)]

\* for spec in data.get('specs', []): skip it when blank, else insert it.
RECURSIVE InsertNonBlankSpecs(_, _, _)
InsertNonBlankSpecs(tx, recipe_id, specs) ==
  IF specs = <<>> THEN tx
  ELSE IF IsBlank(Head(specs))
       THEN InsertNonBlankSpecs(tx, recipe_id, Tail(specs))
       ELSE InsertNonBlankSpecs(InsertIngredient(tx, recipe_id, Head(specs)),
                                recipe_id, Tail(specs))

\* update_whole_recipe on a connection that commits every statement
\* (autocommit): what ran before the exception stays.
update_whole_recipe_autocommit(d, recipe_id, data) ==
  LET tx1 == UpdateRecipe(Connect(d), recipe_id, data)
      tx2 == DeleteIngredients(tx1, recipe_id)
      tx3 == InsertNonBlankSpecs(tx2, recipe_id, Get(data, "specs", <<>>))
  IN  [db |-> tx3.db, ret |-> ~tx3.err]

\* update_whole_recipe(recipe_id, data): the store it leaves and what it
\* returns.
update_whole_recipe(d, recipe_id, data) ==
  LET tx1 == UpdateRecipe(Connect(d), recipe_id, data)
      tx2 == DeleteIngredients(tx1, recipe_id)
      tx3 == InsertNonBlankSpecs(tx2, recipe_id, Get(data, "specs", <<>>))
  IN  IF tx3.err THEN [db |-> d, ret |-> FALSE]
      ELSE [db |-> tx3.db, ret |-> TRUE]

(***************************************************************************)
(* Texts the source names.                                                 *)
(***************************************************************************)
Beer == <<"B", "e", "e", "r">>
Wine == <<"W", "i", "n", "e">>
RedWine == <<"R", "e", "d", " ", "W", "i", "n", "e">>
WhiteWine == <<"W", "h", "i", "t", "e", " ", "W", "i", "n", "e">>
Sparkling == <<"S", "p", "a", "r", "k", "l", "i", "n", "g">>
NonAlcoholic ==
  <<"N", "o", "n", "-", "A", "l", "c", "o", "h", "o", "l", "i", "c">>
Tequila == <<"T", "e", "q", "u", "i", "l", "a">>
Vodka == <<"V", "o", "d", "k", "a">>
Gin == <<"G", "i", "n">>
Rum == <<"R", "u", "m">>
Whiskey == <<"W", "h", "i", "s", "k", "e", "y">>
Bourbon == <<"B", "o", "u", "r", "b", "o", "n">>

(***************************************************************************)
(* migrate_json_to_db.                                                     *)
(***************************************************************************)
\* The categorisation with its spirit rule tried first: a featured wine
\* is filed under Wine.
CategorySpiritFirst(item) ==
  LET spirit == Get(item, "spirit", <<>>)
      beer_type == Get(item, "beer_type", <<>>)
  IN  IF spirit = Beer \/ beer_type # <<>> THEN "Beer"
      ELSE IF spirit \in {RedWine, WhiteWine} \/ Contains(Wine, spirit)
      THEN "Wine"
      ELSE IF Get(item, "is_cotw", FALSE) THEN "Featured Sips"
      ELSE IF spirit = NonAlcoholic THEN "Zero Proof"
      ELSE IF Get(item, "is_craft", FALSE) THEN "Craft Cocktails"
      ELSE IF Get(item, "is_classic", FALSE) THEN "Classics"
      ELSE IF spirit \in {Tequila, Vodka, Gin, Rum, Whiskey, Bourbon}
      THEN "Liquors"
      ELSE "Classics"

\* The categorisation whose last branch assigns nothing.
CategoryBareSpiritNoOp(item) ==
  LET spirit == Get(item, "spirit", <<>>)
      beer_type == Get(item, "beer_type", <<>>)
  IN  IF Get(item, "is_cotw", FALSE) THEN "Featured Sips"
      ELSE IF spirit = Beer \/ beer_type # <<>> THEN "Beer"
      ELSE IF spirit \in {RedWine, WhiteWine} \/ Contains(Wine, spirit)
      THEN "Wine"
      ELSE IF spirit = NonAlcoholic THEN "Zero Proof"
      ELSE IF Get(item, "is_craft", FALSE) THEN "Craft Cocktails"
      ELSE "Classics"

\* The auto-categorisation of one legacy record.
Category(item) ==
  LET spirit == Get(item, "spirit", <<>>)
      beer_type == Get(item, "beer_type", <<>>)
  IN  IF Get(item, "is_cotw", FALSE) THEN "Featured Sips"
      ELSE IF spirit = Beer \/ beer_type # <<>> THEN "Beer"
      ELSE IF spirit \in {RedWine, WhiteWine} \/ Contains(Wine, spirit)
      THEN "Wine"
      ELSE IF spirit = NonAlcoholic THEN "Zero Proof"
      ELSE IF Get(item, "is_craft", FALSE) THEN "Craft Cocktails"
      ELSE IF Get(item, "is_classic", FALSE) THEN "Classics"
      ELSE IF spirit \in {Tequila, Vodka, Gin, Rum, Whiskey, Bourbon}
      THEN "Liquors"
      ELSE "Classics"

\* An entry of spec_recipe is a JSON value: a string [str |-> text] or
\* something else, [num |-> n].   isinstance(spec, str)
IsStr(v) == "str" \in DOMAIN v

\* for spec in specs: if it is a string, parse and insert it.
RECURSIVE InsertSpecRecipe(_, _, _)
InsertSpecRecipe(tx, recipe_id, specs) ==
  IF specs = <<>> THEN tx
  ELSE IF IsStr(Head(specs))
       THEN InsertSpecRecipe(
              InsertIngredient(tx, recipe_id, Head(specs).str),
              recipe_id, Tail(specs))
       ELSE InsertSpecRecipe(tx, recipe_id, Tail(specs))

\* The loop body without its existence check, inserting with INSERT OR
\* REPLACE: a recipe of the same name is replaced by a new row.
MigrateItemReplacing(st, item) ==
  IF st.tx.err THEN st
  ELSE LET old == SelectIdByName(st.tx.db, Get(item, "name", None))
           row == [id |-> 0, name |-> Get(item, "name", None),
                   instructions |-> Get(item, "instructions", <<>>),
                   category |-> Category(item),
                   description |-> None, price |-> None,
                   image_url |-> None, spirit |-> None]
           tx0 == [st.tx EXCEPT
                     !.db.recipes = SelectSeq(@, LAMBDA r : r.id \notin old)]
           tx1 == InsertRecipe(tx0, row)
           tx2 == InsertSpecRecipe(tx1, tx1.db.seq_recipes,
                                   Get(item, "spec_recipe", <<>>))
       IN  [tx |-> tx2, count |-> IF tx2.err THEN st.count ELSE st.count + 1]

\* The body of the loop over the snapshot, for one item.  st holds the
\* transaction and count.
MigrateItem(st, item) ==
  IF st.tx.err THEN st
  ELSE IF SelectIdByName(st.tx.db, Get(item, "name", None)) # {} THEN st
  ELSE LET row == [id |-> 0, name |-> Get(item, "name", None),
                   instructions |-> Get(item, "instructions", <<>>),
                   category |-> Category(item),
                   description |-> None, price |-> None,
                   image_url |-> None, spirit |-> None]
           tx1 == InsertRecipe(st.tx, row)
           tx2 == InsertSpecRecipe(tx1, tx1.db.seq_recipes,
                                   Get(item, "spec_recipe", <<>>))
       IN  [tx |-> tx2, count |-> IF tx2.err THEN st.count ELSE st.count + 1]

RECURSIVE MigrateItems(_, _)
MigrateItems(st, data) ==
  IF data = <<>> THEN st
  ELSE MigrateItems(MigrateItem(st, Head(data)), Tail(data))

\* migrate_json_to_db(): the store it leaves, the count it reports and
\* whether it ended in "Migration failed".  The one commit follows the
\* loop; an exception leaves the connection uncommitted and unclosed, and
\* its changes are rolled back when the connection is collected.
migrate_json_to_db(d, exists, data) ==
  LET st == MigrateItems([tx |-> Connect(d), count |-> 0], data)
  IN  IF ~exists THEN [db |-> d, count |-> 0, failed |-> FALSE]
      ELSE IF st.tx.err THEN [db |-> d, count |-> 0, failed |-> TRUE]
      ELSE [db |-> st.tx.db, count |-> st.count, failed |-> FALSE]

(***************************************************************************)
(* Inputs of the store's operations.                                       *)
(***************************************************************************)
NameA == <<"A">>
NameB == <<"B">>

\* "1 oz G": amount, unit and ingredient.
LineOz == <<"1", " ", "o", "z", " ", "G">>
\* "1.2.3 G": matches the pattern, and float("1.2.3") raises ValueError.
LineBad == <<"1", ".", "2", ".", "3", " ", "G">>
\* "G": no leading number.
LinePlain == <<"G">>
\* " ": a blank line.
LineBlank == <<" ">>

\* specs of save_new_recipe: a line that parses; a line that parses and a
\* line that raises.
SaveSpecs == {<<LineOz>>, <<LineOz, LineBad>>}

\* specs of update_whole_recipe: a blank line and a line with no number; a
\* line that parses and a line that raises.
UpdateSpecs == {<<LineBlank, LinePlain>>, <<LineOz, LineBad>>}

\* The dicts that hold key k with a value of vs, and the dict without k.
Optional(k, vs) == {<<>>} \cup {k :> v : v \in vs}

\* recipe_data of save_new_recipe.
RecipeData ==
  {n @@ [specs |-> sp] :
     n \in Optional("name", {NameA, NameB}), sp \in SaveSpecs}

\* data of update_whole_recipe: every key, or category missing.
UpdateData ==
  {c @@ [name |-> n, description |-> <<"d">>, price |-> <<>>,
         image_url |-> <<>>, instructions |-> <<>>, specs |-> sp] :
     n \in {NameA, NameB},
     c \in Optional("category", {"Wine"}),
     sp \in UpdateSpecs}

\* Legacy records of menu.json.
ItemA == [name |-> NameA, spirit |-> Gin,
          spec_recipe |-> <<[str |-> LineOz]>>]
ItemB == [name |-> NameB, spirit |-> RedWine, is_cotw |-> FALSE,
          spec_recipe |-> <<[num |-> 5], [str |-> LinePlain]>>]
ItemA2 == [name |-> NameA, is_craft |-> TRUE]
ItemNoName == [spirit |-> Gin]
ItemBadSpec == [name |-> NameB,
                spec_recipe |-> <<[str |-> LineOz], [str |-> LineBad]>>]

Snapshots ==
  {<<>>, <<ItemA>>, <<ItemA, ItemB>>, <<ItemB, ItemA2>>,
   <<ItemA, ItemNoName, ItemB>>, <<ItemA, ItemA2, ItemBadSpec>>,
   <<ItemBadSpec, ItemA>>}

\* The AUTOINCREMENT counters stay within the bounds of the model.
WithinBounds(d) == d.seq_recipes <= MaxRecipeId

NoSessions == <<>>

(***************************************************************************)
(* Spec: the store under the application's functions save_new_recipe,     *)
(* delete_recipe and update_whole_recipe, from the empty store (the state  *)
(* after init_db, add_category_column and add_details_columns).            *)
(***************************************************************************)
Init ==
  /\ db = EmptyDb
  /\ menu_exists = FALSE
  /\ menu_json = <<>>
  /\ add_mode = NoSessions
  /\ edit_mode = NoSessions
  /\ editing_item = NoSessions
  /\ last = [op |-> "init"]

SaveNewRecipe ==
  \E recipe_data \in RecipeData :
    LET r == save_new_recipe(db, recipe_data)
    IN  /\ WithinBounds(r.db)
        /\ db' = r.db
        /\ last' = [op |-> "save_new_recipe", data |-> recipe_data,
                    ret |-> r.ret,
                    existed |->
                      SelectIdByName(db, Get(recipe_data, "name", None)) # {}]
        /\ UNCHANGED <<menu_exists, menu_json, add_mode, edit_mode,
                       editing_item>>

DeleteRecipe ==
  \E recipe_id \in 1..MaxRecipeId :
    LET r == delete_recipe(db, recipe_id)
    IN  /\ db' = r.db
        /\ last' = [op |-> "delete_recipe", id |-> recipe_id, ret |-> r.ret,
                    existed |-> recipe_id \in AllIds(db.recipes),
                    owned |-> Len(RawTextsOf(db.recipe_ingredients, recipe_id))]
        /\ UNCHANGED <<menu_exists, menu_json, add_mode, edit_mode,
                       editing_item>>

UpdateWholeRecipe ==
  \E recipe_id \in 1..MaxRecipeId, data \in UpdateData :
    LET r == update_whole_recipe(db, recipe_id, data)
    IN  /\ WithinBounds(r.db)
        /\ db' = r.db
        /\ last' = [op |-> "update_whole_recipe", id |-> recipe_id,
                    data |-> data, ret |-> r.ret,
                    existed |-> recipe_id \in AllIds(db.recipes),
                    owned |-> Len(RawTextsOf(db.recipe_ingredients, recipe_id))]
        /\ UNCHANGED <<menu_exists, menu_json, add_mode, edit_mode,
                       editing_item>>

MigrateJsonToDb ==
  LET r == migrate_json_to_db(db, menu_exists, menu_json)
  IN  /\ WithinBounds(r.db)
      /\ db' = r.db
      /\ last' = [op |-> "migrate_json_to_db", count |-> r.count,
                  failed |-> r.failed,
                  again |-> last.op = "migrate_json_to_db"]
      /\ UNCHANGED <<menu_exists, menu_json, add_mode, edit_mode,
                     editing_item>>

Next ==
  \/ SaveNewRecipe
  \/ DeleteRecipe
  \/ UpdateWholeRecipe

Spec == Init /\ [][Next]_vars

(***************************************************************************)
(* SpecMigrate: migrate_json_to_db run any number of times on the snapshot *)
(* menu.json holds, against the stores that save_new_recipe and            *)
(* delete_recipe build; menu.json may also be absent.                      *)
(***************************************************************************)
InitMigrate ==
  /\ db = EmptyDb
  /\ menu_exists \in BOOLEAN
  /\ menu_json \in (IF menu_exists THEN Snapshots ELSE {<<>>})
  /\ add_mode = NoSessions
  /\ edit_mode = NoSessions
  /\ editing_item = NoSessions
  /\ last = [op |-> "init"]

NextMigrate ==
  \/ MigrateJsonToDb
  \/ SaveNewRecipe
  \/ DeleteRecipe

SpecMigrate == InitMigrate /\ [][NextMigrate]_vars

(***************************************************************************)
(* SpecClassify: one run of migrate_json_to_db on the empty store, for a   *)
(* snapshot of one legacy record with any combination of is_cotw, spirit,  *)
(* beer_type, is_craft and is_classic, each present or missing.            *)
(***************************************************************************)
Rye == <<"R", "y", "e">>
HouseWine == <<"H", "o", "u", "s", "e", " ", "W", "i", "n", "e">>
Draft == <<"D", "r", "a", "f", "t">>

Spirits ==
  {Beer, RedWine, WhiteWine, HouseWine, Sparkling, NonAlcoholic, Tequila,
   Vodka, Gin, Rum, Whiskey, Bourbon, Rye}

ClassifyItems ==
  {[name |-> NameA] @@ c @@ s @@ b @@ cr @@ cl :
     c \in Optional("is_cotw", BOOLEAN),
     s \in Optional("spirit", Spirits),
     b \in Optional("beer_type", {<<>>, Draft}),
     cr \in Optional("is_craft", BOOLEAN),
     cl \in Optional("is_classic", BOOLEAN)}

InitClassify ==
  /\ db = EmptyDb
  /\ menu_exists = TRUE
  /\ menu_json \in {<<item>> : item \in ClassifyItems}
  /\ add_mode = NoSessions
  /\ edit_mode = NoSessions
  /\ editing_item = NoSessions
  /\ last = [op |-> "init"]

NextClassify == MigrateJsonToDb

SpecClassify == InitClassify /\ [][NextClassify]_vars

(***************************************************************************)
(* Helpers of the properties.                                              *)
(***************************************************************************)
Names(d) == {d.recipes[i].name : i \in DOMAIN d.recipes}

NonBlank(specs) == SelectSeq(specs, LAMBDA line : ~IsBlank(line))

\* A legacy record whose own insert raises nothing: it has a name and none
\* of its string spec lines makes float() raise.
Insertable(item) ==
  /\ "name" \in DOMAIN item
  /\ \A i \in DOMAIN Get(item, "spec_recipe", <<>>) :
       LET spec == item.spec_recipe[i]
       IN  IsStr(spec) => ~parse_spec_line(spec.str).raises

(***************************************************************************)
(* C1.  Migration is idempotent: when migrate_json_to_db runs twice in a   *)
(* row on the same snapshot, the second run leaves the store (recipes and  *)
(* ingredient rows) as the first run left it, and inserts 0 records.       *)
(***************************************************************************)
C1_MigrationIdempotent ==
  [][(/\ last.op = "migrate_json_to_db"
      /\ last'.op = "migrate_json_to_db"
      /\ menu_json' = menu_json /\ menu_exists' = menu_exists)
     => (db' = db /\ last'.count = 0)]_vars

\* A second run in a row, after a first run that inserted the snapshot's
\* two recipes with their ingredient rows.
C1_Witness ==
  /\ last.op = "migrate_json_to_db"
  /\ last.again /\ ~last.failed /\ last.count = 0
  /\ menu_exists
  /\ Names(db) = {NameA, NameB}
  /\ db.recipe_ingredients # <<>>

(***************************************************************************)
(* C2.  save_new_recipe called with a name that already exists returns     *)
(* False and leaves the store unchanged: the recipes, every field of       *)
(* every recipe, and every ingredient row.                                 *)
(***************************************************************************)
C2_DuplicateSaveLeavesStore ==
  [][(/\ last'.op = "save_new_recipe"
      /\ Get(last'.data, "name", None) \in Names(db))
     => (last'.ret = FALSE /\ db' = db)]_vars

\* A save under a name the store held, with a recipe and ingredient rows
\* in the store.
C2_Witness ==
  /\ last.op = "save_new_recipe"
  /\ last.existed /\ ~last.ret
  /\ last.data.specs = <<LineOz>>
  /\ db.recipe_ingredients # <<>>

(***************************************************************************)
(* C8 as claimed.  Migration is best-effort per record: after a run on a   *)
(* snapshot, every record of the snapshot whose own insert does not fail   *)
(* is in the store, whether it comes before or after a failing record.     *)
(***************************************************************************)
C8_BestEffortPerRecord ==
  (last.op = "migrate_json_to_db" /\ menu_exists)
  => \A i \in DOMAIN menu_json :
       Insertable(menu_json[i]) => menu_json[i].name \in Names(db)

(***************************************************************************)
(* C9.  delete_recipe(id) removes the recipe with that id and every        *)
(* ingredient row owned by it, and leaves every other recipe and every     *)
(* other recipe's ingredient rows unchanged.                               *)
(***************************************************************************)
C9_DeleteRemovesOnlyThatRecipe ==
  [][last'.op = "delete_recipe"
     => LET id == last'.id
        IN  /\ last'.ret
            /\ SelectSeq(db'.recipes, LAMBDA r : r.id = id) = <<>>
            /\ SelectSeq(db'.recipe_ingredients,
                         LAMBDA r : r.recipe_id = id) = <<>>
            /\ SelectSeq(db'.recipes, LAMBDA r : r.id # id)
                 = SelectSeq(db.recipes, LAMBDA r : r.id # id)
            /\ SelectSeq(db'.recipe_ingredients, LAMBDA r : r.recipe_id # id)
                 = SelectSeq(db.recipe_ingredients,
                             LAMBDA r : r.recipe_id # id)]_vars

\* A delete of a recipe that owned ingredient rows, with another recipe
\* and its ingredient rows left in the store.
C9_Witness ==
  /\ last.op = "delete_recipe"
  /\ last.existed /\ last.owned > 0
  /\ db.recipes # <<>>
  /\ \E i \in DOMAIN db.recipe_ingredients :
       db.recipe_ingredients[i].recipe_id \in AllIds(db.recipes)

(***************************************************************************)
(* C10.  update_whole_recipe is all-or-nothing: either it returns True,    *)
(* and the recipe's core fields are those of the new data and the          *)
(* ingredient rows of that recipe id are the new data's non-blank lines,   *)
(* or it returns False and the store is exactly as before the call.        *)
(***************************************************************************)
C10_UpdateAllOrNothing ==
  [][last'.op = "update_whole_recipe"
     => LET id == last'.id
            data == last'.data
        IN  \/ /\ last'.ret
               /\ AllIds(db'.recipes) = AllIds(db.recipes)
               /\ \A i \in DOMAIN db'.recipes :
                    db'.recipes[i].id = id
                    => /\ db'.recipes[i].name = data.name
                       /\ db'.recipes[i].category = data.category
                       /\ db'.recipes[i].description = data.description
                       /\ db'.recipes[i].price = data.price
                       /\ db'.recipes[i].image_url = data.image_url
                       /\ db'.recipes[i].instructions = data.instructions
                       /\ db'.recipes[i].spirit = Get(data, "spirit", <<>>)
               /\ RawTextsOf(db'.recipe_ingredients, id)
                    = NonBlank(Get(data, "specs", <<>>))
            \/ /\ ~last'.ret
               /\ db' = db]_vars

\* An update of a stored recipe that owned ingredient rows, whose second
\* spec line raised after the UPDATE, the DELETE and the first INSERT ran.
C10_Witness ==
  /\ last.op = "update_whole_recipe"
  /\ ~last.ret /\ last.existed /\ last.owned > 0
  /\ "category" \in DOMAIN last.data
  /\ last.data.specs = <<LineOz, LineBad>>
  /\ \A i \in DOMAIN db.recipes :
       db.recipes[i].name = last.data.name => db.recipes[i].id = last.id

(***************************************************************************)
(* The categories, and the signals of a legacy record.                     *)
(***************************************************************************)
Categories ==
  {"Featured Sips", "Craft Cocktails", "Classics", "Beer", "Wine",
   "Zero Proof", "Liquors", "Uncategorized"}

BareSpirits == {Tequila, Vodka, Gin, Rum, Whiskey, Bourbon}

Flag(item, k) == k \in DOMAIN item /\ item[k]

SpiritOf(item) == IF "spirit" \in DOMAIN item THEN item.spirit ELSE <<>>

HasBeerType(item) == "beer_type" \in DOMAIN item /\ item.beer_type # <<>>

\* The precedence as the claim states it: no rule for a bare spirit.
ClaimedCategory(item) ==
  IF Flag(item, "is_cotw") THEN "Featured Sips"
  ELSE IF SpiritOf(item) = Beer \/ HasBeerType(item) THEN "Beer"
  ELSE IF Contains(Wine, SpiritOf(item)) THEN "Wine"
  ELSE IF SpiritOf(item) = NonAlcoholic THEN "Zero Proof"
  ELSE IF Flag(item, "is_craft") THEN "Craft Cocktails"
  ELSE IF Flag(item, "is_classic") THEN "Classics"
  ELSE "Classics"

\* The precedence with the bare-spirit rule in its place.
AmendedCategory(item) ==
  IF Flag(item, "is_cotw") THEN "Featured Sips"
  ELSE IF SpiritOf(item) = Beer \/ HasBeerType(item) THEN "Beer"
  ELSE IF Contains(Wine, SpiritOf(item)) THEN "Wine"
  ELSE IF SpiritOf(item) = NonAlcoholic THEN "Zero Proof"
  ELSE IF Flag(item, "is_craft") THEN "Craft Cocktails"
  ELSE IF Flag(item, "is_classic") THEN "Classics"
  ELSE IF SpiritOf(item) \in BareSpirits THEN "Liquors"
  ELSE "Classics"

\* The migration of a one-record snapshot has stored the record.
Migrated ==
  /\ last.op = "migrate_json_to_db"
  /\ ~last.failed
  /\ Len(menu_json) = 1
  /\ Len(db.recipes) = 1

(***************************************************************************)
(* C6 as claimed.  The category assigned by migration follows the          *)
(* precedence is_cotw, Beer, Wine, Zero Proof, Craft Cocktails, Classics,  *)
(* and a record with none of these signals gets Classics.                  *)
(***************************************************************************)
C6_ClaimedPrecedence ==
  Migrated => db.recipes[1].category = ClaimedCategory(menu_json[1])

(***************************************************************************)
(* C6 as amended.  The category assigned by migration follows the          *)
(* first-match-wins precedence is_cotw, Beer, Wine, Zero Proof, Craft      *)
(* Cocktails, Classics, then Liquors for a spirit among Tequila, Vodka,    *)
(* Gin, Rum, Whiskey, Bourbon, and Classics otherwise; every record gets   *)
(* exactly one category of the closed set.                                 *)
(***************************************************************************)
C6_AmendedPrecedence ==
  /\ Migrated => db.recipes[1].category = AmendedCategory(menu_json[1])
  /\ \A i \in DOMAIN db.recipes : db.recipes[i].category \in Categories

\* The migrated record is featured and a red wine.
C6_Witness ==
  /\ Migrated
  /\ Flag(menu_json[1], "is_cotw")
  /\ SpiritOf(menu_json[1]) = RedWine
  /\ db.recipes[1].name = NameA

\* A record with no flag set, no beer_type and a bare spirit.
BareSpiritRecord(item) ==
  /\ SpiritOf(item) \in BareSpirits
  /\ ~Flag(item, "is_cotw")
  /\ ~Flag(item, "is_craft")
  /\ ~Flag(item, "is_classic")
  /\ ~HasBeerType(item)

(***************************************************************************)
(* C7 as claimed.  A legacy record with a bare spirit and no other signal  *)
(* is migrated with the default category, Classics.                        *)
(***************************************************************************)
C7_BareSpiritStaysClassics ==
  (Migrated /\ BareSpiritRecord(menu_json[1]))
  => db.recipes[1].category = "Classics"

(***************************************************************************)
(* C7 as amended.  A legacy record with a bare spirit and no other signal  *)
(* is migrated with the category Liquors.                                  *)
(***************************************************************************)
C7_BareSpiritIsLiquors ==
  (Migrated /\ BareSpiritRecord(menu_json[1]))
  => db.recipes[1].category = "Liquors"

\* The migrated record is a Bourbon with its flags present and false.
C7_Witness ==
  /\ Migrated
  /\ BareSpiritRecord(menu_json[1])
  /\ SpiritOf(menu_json[1]) = Bourbon
  /\ {"is_cotw", "is_craft", "is_classic"} \subseteq DOMAIN menu_json[1]

(***************************************************************************)
(* The page, bar.py.  menu.json holds a list of records; a record of the   *)
(* model holds name, spirit and is_cotw, and price when the form wrote it: *)
(* the seed record has no price key, so it equals no record the form       *)
(* builds.  The other keys of a record are copied from the form's widgets  *)
(* to the file and are held at the widgets' defaults.                      *)
(* add_mode, edit_mode and editing_item are st.session_state, one value    *)
(* for each browser session.                                               *)
(***************************************************************************)
GrandMargarita ==
  <<"G", "r", "a", "n", "d", " ", "M", "a", "r", "g", "a", "r", "i", "t", "a">>

\* st.session_state.editing_item = None: a value that is no record of the
\* menu, comparable with one.
NoItem == [none |-> TRUE]

seed_data ==
  << [name |-> GrandMargarita, spirit |-> Tequila, is_cotw |-> FALSE] >>

\* load_menu's result; the file it leaves behind is this list as well (the
\* seed is written when menu.json is absent).
load_menu(exists, json) == IF exists THEN json ELSE seed_data

\* "Wine" in spirit or "Sparkling" in spirit
IsWineLike(spirit) == Contains(Wine, spirit) \/ Contains(Sparkling, spirit)

\* The pass that clears is_cotw on every record of another group.
ClearFeaturedAllGroups(menu, is_edit, edit_item, spirit) ==
  [i \in 1..Len(menu) |->
     IF is_edit /\ menu[i] = edit_item
     THEN menu[i]
     ELSE ("is_cotw" :> FALSE) @@ menu[i]]

\* The pass without its assignments.
ClearFeaturedNothing(menu, is_edit, edit_item, spirit) == menu

\* for d in menu: ... d['is_cotw'] = False
ClearFeatured(menu, is_edit, edit_item, spirit) ==
  LET is_new_wine == IsWineLike(spirit)
  IN [i \in 1..Len(menu) |->
        LET d == menu[i]
            d_is_wine == IsWineLike(Get(d, "spirit", <<>>))
        IN IF is_edit /\ d = edit_item
           THEN d
           ELSE IF is_new_wine = d_is_wine
                THEN ("is_cotw" :> FALSE) @@ d
                ELSE d]

\* menu.index(item), from 1; 0 stands for ValueError.
Index(menu, item) ==
  IF \E i \in 1..Len(menu) : menu[i] = item
  THEN Min({i \in 1..Len(menu) : menu[i] = item})
  ELSE 0

\* menu.remove(item)
Remove(menu, item) ==
  LET idx == Index(menu, item)
  IN [i \in 1..(Len(menu) - 1) |-> IF i < idx THEN menu[i] ELSE menu[i + 1]]

\* The position the submitted record is written to: the first record equal
\* to edit_item, or one past the end for append.
Position(menu, is_edit, edit_item) ==
  IF is_edit /\ Index(menu, edit_item) > 0
  THEN Index(menu, edit_item)
  ELSE Len(menu) + 1

\* The body of "if name:", down to save_menu: the menu that is saved, the
\* position the submitted record is written to, and the positions the
\* clearing pass changed.
Submitted(menu, is_edit, edit_item, new_entry) ==
  LET cleared == IF new_entry.is_cotw
                 THEN ClearFeatured(menu, is_edit, edit_item, new_entry.spirit)
                 ELSE menu
      idx == Position(cleared, is_edit, edit_item)
  IN [menu |-> [i \in 1..(IF idx > Len(cleared) THEN idx ELSE Len(cleared))
                  |-> IF i = idx THEN new_entry ELSE cleared[i]],
      at |-> idx,
      cleared |-> {i \in 1..Len(menu) : cleared[i] # menu[i]}]

(***************************************************************************)
(* Inputs of the form.                                                     *)
(***************************************************************************)
Negroni == <<"N", "e", "g", "r", "o", "n", "i">>

FormNames == {<<>>, GrandMargarita, Negroni}

FormSpirits == {Gin, RedWine, Sparkling}

FormPrices == {0}

Sessions == {1}

(***************************************************************************)
(* SpecMenu: one session of the page, from the first visit (menu.json      *)
(* absent), in bartender mode.  Every action is one run of the script: it  *)
(* loads the menu and handles the widget that fired.                       *)
(***************************************************************************)
InitMenu ==
  /\ db = EmptyDb
  /\ menu_exists = FALSE
  /\ menu_json = <<>>
  /\ add_mode = [s \in Sessions |-> FALSE]
  /\ edit_mode = [s \in Sessions |-> FALSE]
  /\ editing_item = [s \in Sessions |-> NoItem]
  /\ last = [op |-> "init"]

\* A run with no widget fired.
LoadPage ==
  /\ ~menu_exists
  /\ menu_exists' = TRUE
  /\ menu_json' = load_menu(menu_exists, menu_json)
  /\ last' = [op |-> "load"]
  /\ UNCHANGED <<db, add_mode, edit_mode, editing_item>>

\* "Add New Spec" without its reset of edit_mode and editing_item.
AddNewSpecKeepingEdit ==
  \E s \in DOMAIN add_mode :
    /\ menu_exists
    /\ add_mode' = [add_mode EXCEPT ![s] = TRUE]
    /\ last' = [op |-> "add_new_spec"]
    /\ UNCHANGED <<db, menu_exists, menu_json, edit_mode, editing_item>>

\* The sidebar button "Add New Spec".
AddNewSpec ==
  \E s \in DOMAIN add_mode :
    /\ menu_exists
    /\ add_mode' = [add_mode EXCEPT ![s] = TRUE]
    /\ edit_mode' = [edit_mode EXCEPT ![s] = FALSE]
    /\ editing_item' = [editing_item EXCEPT ![s] = NoItem]
    /\ last' = [op |-> "add_new_spec"]
    /\ UNCHANGED <<db, menu_exists, menu_json>>

\* The edit button of a record of the menu display.
ClickEdit ==
  \E s \in DOMAIN add_mode :
    /\ menu_exists
    /\ ~(add_mode[s] \/ edit_mode[s])
    /\ \E i \in 1..Len(menu_json) :
         /\ edit_mode' = [edit_mode EXCEPT ![s] = TRUE]
         /\ editing_item' = [editing_item EXCEPT ![s] = menu_json[i]]
    /\ last' = [op |-> "edit"]
    /\ UNCHANGED <<db, menu_exists, menu_json, add_mode>>

\* The delete button of a record of the menu display.
ClickDelete ==
  \E s \in DOMAIN add_mode :
    /\ menu_exists
    /\ ~(add_mode[s] \/ edit_mode[s])
    /\ \E i \in 1..Len(menu_json) :
         menu_json' = Remove(menu_json, menu_json[i])
    /\ last' = [op |-> "delete"]
    /\ UNCHANGED <<db, menu_exists, add_mode, edit_mode, editing_item>>

\* The button "Cancel" of the form.
Cancel ==
  \E s \in DOMAIN add_mode :
    /\ menu_exists
    /\ add_mode[s] \/ edit_mode[s]
    /\ add_mode' = [add_mode EXCEPT ![s] = FALSE]
    /\ edit_mode' = [edit_mode EXCEPT ![s] = FALSE]
    /\ last' = [op |-> "cancel"]
    /\ UNCHANGED <<db, menu_exists, menu_json, editing_item>>

\* The form's submit button, "Update Item" or "Add Item to Menu".
SubmitForm ==
  \E s \in DOMAIN add_mode :
    /\ menu_exists
    /\ add_mode[s] \/ edit_mode[s]
    /\ \E name \in FormNames, spirit \in FormSpirits,
          is_cotw_input \in BOOLEAN, price_input \in FormPrices :
         LET is_edit == edit_mode[s]
             edit_item == editing_item[s]
             new_entry == [name |-> name, spirit |-> spirit,
                           price |-> price_input, is_cotw |-> is_cotw_input]
             menu == load_menu(menu_exists, menu_json)
             saved == Submitted(menu, is_edit, edit_item, new_entry)
         IN IF name # <<>>
            THEN /\ Len(saved.menu) <= MaxMenu
                 /\ menu_json' = saved.menu
                 /\ add_mode' = [add_mode EXCEPT ![s] = FALSE]
                 /\ edit_mode' = [edit_mode EXCEPT ![s] = FALSE]
                 /\ last' = [op |-> "submit", name |-> name, s |-> s,
                             is_edit |-> is_edit, entry |-> new_entry,
                             at |-> saved.at, cleared |-> saved.cleared,
                             replaced |-> saved.at <= Len(menu)]
                 /\ UNCHANGED <<db, menu_exists, editing_item>>
            ELSE /\ last' = [op |-> "submit", name |-> name, s |-> s]
                 /\ UNCHANGED <<db, menu_exists, menu_json, add_mode,
                                edit_mode, editing_item>>

NextMenu ==
  \/ LoadPage
  \/ AddNewSpec
  \/ ClickEdit
  \/ ClickDelete
  \/ Cancel
  \/ SubmitForm

SpecMenu == InitMenu /\ [][NextMenu]_vars

(***************************************************************************)
(* Properties of the menu.                                                 *)
(***************************************************************************)
\* The positions of the featured records of a type group.
Featured(menu, wine) ==
  {i \in 1..Len(menu) :
     /\ Get(menu[i], "is_cotw", FALSE)
     /\ IsWineLike(Get(menu[i], "spirit", <<>>)) = wine}

\* A form submission that was saved.
SavedSubmit(l) == l.op = "submit" /\ l.name # <<>>

\* C3: from the seed menu, after any sequence of add-form submissions,
\* edit-form submissions and deletes, no two records of the persisted menu
\* have the same name.
C3_NamesUnique ==
  \A i, j \in 1..Len(menu_json) :
    menu_json[i].name = menu_json[j].name => i = j

\* C4: from a menu with at most one featured record in each type group
\* (wine-like, everything else), after any sequence of add-form submissions,
\* edit-form submissions and deletes, each type group still has at most one
\* record with is_cotw true.
C4_OneFeaturedPerGroup ==
  \A wine \in BOOLEAN : Cardinality(Featured(menu_json, wine)) <= 1

\* An edit that moved a record to the other type group and featured it
\* there was saved, and the pass cleared the record featured there before.
C4_Witness ==
  /\ SavedSubmit(last)
  /\ last.is_edit
  /\ last.entry.is_cotw
  /\ IsWineLike(editing_item[1].spirit) # IsWineLike(last.entry.spirit)
  /\ last.cleared # {}
  /\ Len(menu_json) = MaxMenu

\* C5: a saved submission with is_cotw set clears is_cotw on every other
\* record of the submitted record's type group and leaves is_cotw as it was
\* on every record of the other type group.
C5_ClearsOwnGroupOnly ==
  [][SavedSubmit(last') /\ last'.entry.is_cotw =>
       LET before == load_menu(menu_exists, menu_json)
           after == menu_json'
           wine == IsWineLike(last'.entry.spirit)
       IN /\ after[last'.at] = last'.entry
          /\ \A i \in 1..Len(before) :
               i # last'.at =>
                 after[i].is_cotw =
                   IF IsWineLike(before[i].spirit) = wine
                   THEN FALSE
                   ELSE before[i].is_cotw]_vars

\* A featured wine-like record was saved: the wine-like record featured
\* before was cleared, and the featured record of the other group stays.
C5_Witness ==
  /\ SavedSubmit(last)
  /\ last.entry.is_cotw
  /\ IsWineLike(last.entry.spirit)
  /\ last.cleared # {}
  /\ Featured(menu_json, FALSE) # {}
  /\ Featured(menu_json, TRUE) = {last.at}

(***************************************************************************)
(* SpecShared: two browser sessions of the page on one menu.json.  Each    *)
(* run of the script loads the file, so a session sees what the other      *)
(* saved, while its own editing_item stays the record it clicked.          *)
(***************************************************************************)
\* Number of records of the menu the two sessions share.
MaxShared == 2

SharedSessions == {1, 2}

InitShared ==
  /\ db = EmptyDb
  /\ menu_exists = FALSE
  /\ menu_json = <<>>
  /\ add_mode = [s \in SharedSessions |-> FALSE]
  /\ edit_mode = [s \in SharedSessions |-> FALSE]
  /\ editing_item = [s \in SharedSessions |-> NoItem]
  /\ last = [op |-> "init"]

\* Spirits the two sessions pick in the form: one of each featured group.
SharedSpirits == {Gin, Sparkling}

SubmitShared ==
  /\ SubmitForm
  /\ Len(menu_json') <= MaxShared
  /\ SavedSubmit(last') => last'.entry.spirit \in SharedSpirits

NextShared ==
  \/ LoadPage
  \/ AddNewSpec
  \/ ClickEdit
  \/ ClickDelete
  \/ Cancel
  \/ SubmitShared

SpecShared == InitShared /\ [][NextShared]_vars

\* C11: when two sessions have the edit form open on the same stored record
\* and submit one after the other, the later submission overwrites the
\* earlier one: the menu keeps its length and holds the later values at the
\* position of that record.
C11_LastWriteWins ==
  [][(/\ SavedSubmit(last) /\ last.is_edit /\ last.replaced
      /\ SavedSubmit(last') /\ last'.is_edit
      /\ last'.s # last.s
      /\ editing_item[last'.s] = editing_item[last.s])
     => /\ Len(menu_json') = Len(menu_json)
        /\ last'.at = last.at
        /\ menu_json'[last.at] = last'.entry]_vars

(***************************************************************************)
(* The text helpers of bar.py.                                             *)
(***************************************************************************)
Max(S) == CHOOSE x \in S : \A y \in S : x >= y

\* str.strip()
Strip(text) ==
  LET keep == {i \in 1..Len(text) : ~IsSpace(text[i])}
  IN  IF keep = {} THEN <<>> ELSE SubSeq(text, Min(keep), Max(keep))

\* The unit alternatives of clean_ingredient_name's pattern, in its order.
CleanUnits ==
  << <<"o", "z">>, <<"m", "l">>, <<"c", "l">>, <<"d", "a", "s", "h">>,
     <<"d", "a", "s", "h", "e", "s">> >>

\* Length of the longest run of [0-9.\s/] characters that starts at p.
QuantityRun(line, p) ==
  CHOOSE n \in 0..(Len(line) - p + 1) :
    LET InClass(c) == IsDigit(c) \/ c = "." \/ IsSpace(c) \/ c = "/"
    IN  /\ \A i \in p..(p + n - 1) : InClass(line[i])
        /\ \/ p + n > Len(line)
           \/ ~InClass(line[p + n])

\* re.sub of the anchored pattern, ignoring case, then strip(): the run of
\* [0-9.\s/] is as long as it can be, the first unit alternative that matches
\* behind it is taken, and nothing that follows can fail, so the match never
\* gives anything back.
clean_ingredient_name(line) ==
  LET n == QuantityRun(line, 1)
      us == {k \in 1..Len(CleanUnits) : UnitAt(line, n + 1, CleanUnits[k])}
      q == IF us = {} THEN n + 1 ELSE n + 1 + Len(CleanUnits[Min(us)])
  IN  IF n = 0 THEN Strip(line)
      ELSE Strip(SubSeq(line, q + SpaceRun(line, q), Len(line)))

(***************************************************************************)
(* Lines of text, built from tokens.                                       *)
(***************************************************************************)
\* Number of tokens of a line.
MaxTokens == 5

\* The concatenations of at most n of the tokens.
RECURSIVE TokenLines(_, _)
TokenLines(tokens, n) ==
  IF n = 0 THEN {<<>>}
  ELSE LET shorter == TokenLines(tokens, n - 1)
       IN  shorter \cup {l \o t : l \in shorter, t \in tokens}

CleanTokens ==
  { <<"1">>, <<".">>, <<" ">>, <<"o", "z">>, <<"M", "L">>, <<"c", "l">>,
    <<"d", "a", "s", "h">>, <<"D", "a", "s", "h", "e", "s">>, <<"G">> }

(***************************************************************************)
(* SpecClean: clean_ingredient_name applied to a line, and again to what   *)
(* it returned.                                                            *)
(***************************************************************************)
InitClean ==
  /\ db = EmptyDb
  /\ menu_exists = FALSE
  /\ menu_json = <<>>
  /\ add_mode = NoSessions
  /\ edit_mode = NoSessions
  /\ editing_item = NoSessions
  /\ last \in {[op |-> "line", line |-> l] :
                l \in TokenLines(CleanTokens, MaxTokens)}

CleanIngredientName ==
  /\ last.op \in {"line", "clean_ingredient_name"}
  /\ LET line == IF last.op = "line" THEN last.line ELSE last.ret
     IN  last' = [op |-> "clean_ingredient_name", line |-> line,
                  ret |-> clean_ingredient_name(line)]
  /\ UNCHANGED <<db, menu_exists, menu_json, add_mode, edit_mode,
                 editing_item>>

NextClean == CleanIngredientName

SpecClean == InitClean /\ [][NextClean]_vars

\* C12: clean_ingredient_name is idempotent: applied to what it returned, it
\* returns the same text.
C12_CleanIdempotent ==
  [][last.op = "clean_ingredient_name" /\ last'.op = "clean_ingredient_name"
     => last'.ret = last.ret]_vars

\* The lines <number> <unit> <name> of C15: a well-formed number, one
\* space, a whole unit token in any case, one space and a name.  The value
\* is the position the name starts at, 0 for a line of another form.
NameStart(line) ==
  LET n == NumberRun(line, 1)
      us == {k \in 1..Len(CleanUnits) :
               /\ UnitAt(line, n + 2, CleanUnits[k])
               /\ n + 2 + Len(CleanUnits[k]) < Len(line)
               /\ line[n + 2 + Len(CleanUnits[k])] = " "
               /\ ~IsSpace(line[n + 3 + Len(CleanUnits[k])])}
  IN  IF /\ n >= 1
         /\ ~FloatRaises(SubSeq(line, 1, n))
         /\ n < Len(line)
         /\ line[n + 1] = " "
         /\ us # {}
      THEN n + 3 + Len(CleanUnits[Max(us)])
      ELSE 0

\* The line does not start, after any whitespace, with a digit, a dot or a
\* slash.
NoLeadingQuantity(line) ==
  LET text == Strip(line)
  IN  text = <<>> \/ ~(IsDigit(text[1]) \/ text[1] \in {".", "/"})

\* C15: for a line <number> <unit> <name>, with the unit any of oz, ml, cl,
\* dash, dashes in any case, clean_ingredient_name returns the name, trimmed;
\* a line with no leading quantity is returned trimmed and otherwise
\* unchanged.
C15_ReturnsTheName ==
  last.op = "clean_ingredient_name" =>
    /\ NameStart(last.line) > 0 =>
         last.ret = Strip(SubSeq(last.line, NameStart(last.line),
                                 Len(last.line)))
    /\ NoLeadingQuantity(last.line) => last.ret = Strip(last.line)

(***************************************************************************)
(* SpecParse: parse_spec_line applied to a line.                           *)
(***************************************************************************)
ParseTokens ==
  { <<"1">>, <<".">>, <<" ">>, <<"o", "z">>, <<"M", "L">>,
    <<"d", "a", "s", "h", "e", "s">>, <<"G">> }

InitParse ==
  /\ db = EmptyDb
  /\ menu_exists = FALSE
  /\ menu_json = <<>>
  /\ add_mode = NoSessions
  /\ edit_mode = NoSessions
  /\ editing_item = NoSessions
  /\ last \in {[op |-> "line", line |-> l] :
                l \in TokenLines(ParseTokens, MaxTokens)}

ParseSpecLine ==
  /\ last.op = "line"
  /\ last' = [op |-> "parse_spec_line", line |-> last.line,
              ret |-> parse_spec_line(last.line)]
  /\ UNCHANGED <<db, menu_exists, menu_json, add_mode, edit_mode,
                 editing_item>>

NextParse == ParseSpecLine

SpecParse == InitParse /\ [][NextParse]_vars

\* The shape of C13: a well-formed integer or decimal number, optional
\* whitespace and an optional unit among oz, dash, dashes, cl, ml, at least
\* one whitespace character, and a name.
WellFormedLine(line) ==
  LET n == NumberRun(line, 1)
      w == SpaceRun(line, n + 1)
      p == n + w + 1
  IN  /\ n >= 1
      /\ ~FloatRaises(SubSeq(line, 1, n))
      /\ \/ w >= 1
         \/ \E k \in 1..Len(Units) :
              /\ UnitAt(line, p, Units[k])
              /\ p + Len(Units[k]) <= Len(line)
              /\ IsSpace(line[p + Len(Units[k])])

\* C13: parse_spec_line never fails: it returns a triple whose amount is
\* not negative, and for a line that is not of the well-formed shape it
\* returns (0, "", line) with the line unchanged.
C13_NeverFails ==
  last.op = "parse_spec_line" =>
    /\ ~last.ret.raises
    /\ last.ret.amount.num >= 0
    /\ ~WellFormedLine(last.line) =>
         /\ last.ret.amount = Zero
         /\ last.ret.unit = <<>>
         /\ last.ret.ingredient = last.line

(***************************************************************************)
(* convert_ml_to_oz, in bar.py and in db_utils.py: re.sub, ignoring case,  *)
(* of a number (digits, an optional dot, optional digits), optional        *)
(* whitespace and ml or cl.  Amounts are exact decimals; the hundredths    *)
(* and the quarters are the nearest integers, which is what round() gives  *)
(* wherever no tie occurs, and no amount written with the digits of the    *)
(* lines below is a tie.                                                   *)
(***************************************************************************)
\* Length of the longest run of \d characters that starts at position p.
DigitRun(text, p) ==
  CHOOSE n \in 0..(Len(text) - p + 1) :
    /\ \A i \in p..(p + n - 1) : IsDigit(text[i])
    /\ \/ p + n > Len(text)
       \/ ~IsDigit(text[p + n])

\* The match of the pattern at position p: the position behind group 1 and
\* the position of group 2, or matched FALSE.  Nothing shorter than the
\* longest runs can be followed by a letter, so no other path matches.
MetricAt(text, p) ==
  LET d1 == DigitRun(text, p)
      dot == IF p + d1 <= Len(text) /\ text[p + d1] = "." THEN 1 ELSE 0
      d2 == DigitRun(text, p + d1 + dot)
      e == p + d1 + dot + d2
      u == e + SpaceRun(text, e)
      ok == /\ d1 >= 1
            /\ u + 1 <= Len(text)
            /\ Lower(text[u]) \in {"m", "c"}
            /\ Lower(text[u + 1]) = "l"
  IN  [matched |-> ok,
       number |-> IF ok THEN SubSeq(text, p, e - 1) ELSE <<>>,
       unit |-> IF ok THEN SubSeq(text, u, u + 1) ELSE <<>>,
       next |-> u + 2]

RECURSIVE Pow10(_)
Pow10(n) == IF n = 0 THEN 1 ELSE 10 * Pow10(n - 1)

\* round(value / 30, 2) in hundredths of an ounce, after "if unit == 'cl':
\* value *= 10", a comparison that does not ignore case.
Hundredths(number, unit) ==
  LET value == Float(number)
      ml == IF unit = <<"c", "l">> THEN 10 * value.num ELSE value.num
      n == 10 * ml
      d == 3 * Pow10(value.exp)
  IN  (2 * n + d) \div (2 * d)

RECURSIVE IntText(_)
IntText(n) ==
  IF n < 10 THEN <<Digits[n + 1]>>
  ELSE IntText(n \div 10) \o <<Digits[(n % 10) + 1]>>

\* f"{ounces:.2f}" for a number of quarter ounces
QuartersText(q) ==
  IntText(q \div 4) \o <<".">> \o
  <<Digits[(((q % 4) * 25) \div 10) + 1], Digits[(((q % 4) * 25) % 10) + 1]>>

Dash == <<"d", "a", "s", "h">>

\* convert_match of bar.py
bar_convert_match(number, unit) ==
  LET h == Hundredths(number, unit)
      q == IF h % 25 # 0 THEN (2 * h + 25) \div 50 ELSE h \div 25
  IN  IF q > 0 THEN QuartersText(q) \o <<"o", "z">> ELSE Dash

\* convert_match of db_utils.py.  Its test "remainder < 0.12" is made on
\* binary floats: where the hundredths are 12 above a quarter the float
\* remainder is not below 0.12 for amounts under 8 oz, as here, and falls on
\* either side for larger amounts, which none of the lines below reaches.
db_convert_match(number, unit) ==
  LET h == Hundredths(number, unit)
      q == IF h % 25 < 12 THEN h \div 25 ELSE h \div 25 + 1
  IN  IF h < 15 THEN Dash
      ELSE IF q % 4 = 0 THEN IntText(q \div 4) \o <<" ", "o", "z">>
      ELSE QuartersText(q) \o <<" ", "o", "z">>

\* re.sub from position p on: every match, left to right, is replaced.
RECURSIVE SubFrom(_, _, _)
SubFrom(text, p, bar) ==
  IF p > Len(text) THEN <<>>
  ELSE LET m == MetricAt(text, p)
       IN  IF m.matched
           THEN (IF bar THEN bar_convert_match(m.number, m.unit)
                 ELSE db_convert_match(m.number, m.unit))
                \o SubFrom(text, m.next, bar)
           ELSE <<text[p]>> \o SubFrom(text, p + 1, bar)

bar_convert_ml_to_oz(text) == SubFrom(text, 1, TRUE)

convert_ml_to_oz(text) == SubFrom(text, 1, FALSE)

(***************************************************************************)
(* SpecConvert: both convert_ml_to_oz applied to a line.                   *)
(***************************************************************************)
ConvertTokens ==
  { <<"3">>, <<"0">>, <<".">>, <<" ">>, <<"M", "L">>, <<"c", "l">>,
    <<"C", "L">>, <<"C", "l">>, <<"c", "L">> }

InitConvert ==
  /\ db = EmptyDb
  /\ menu_exists = FALSE
  /\ menu_json = <<>>
  /\ add_mode = NoSessions
  /\ edit_mode = NoSessions
  /\ editing_item = NoSessions
  /\ last \in {[op |-> "line", line |-> l] :
                l \in TokenLines(ConvertTokens, MaxTokens)}

BarConvertMlToOz ==
  /\ last.op = "line"
  /\ last' = [op |-> "bar.convert_ml_to_oz", line |-> last.line,
              ret |-> bar_convert_ml_to_oz(last.line)]
  /\ UNCHANGED <<db, menu_exists, menu_json, add_mode, edit_mode,
                 editing_item>>

ConvertMlToOz ==
  /\ last.op = "line"
  /\ last' = [op |-> "db_utils.convert_ml_to_oz", line |-> last.line,
              ret |-> convert_ml_to_oz(last.line)]
  /\ UNCHANGED <<db, menu_exists, menu_json, add_mode, edit_mode,
                 editing_item>>

NextConvert == BarConvertMlToOz \/ ConvertMlToOz

SpecConvert == InitConvert /\ [][NextConvert]_vars

\* The text with every letter in lower case.
LowerText(text) == [i \in 1..Len(text) |-> Lower(text[i])]

\* C14: convert_ml_to_oz treats the unit token case-insensitively in the
\* conversion: a line with CL, Cl, cL or ML converts to what the line with
\* cl or ml converts to.
C14_UnitCaseInsensitive ==
  /\ last.op = "bar.convert_ml_to_oz" =>
       LowerText(last.ret) = bar_convert_ml_to_oz(LowerText(last.line))
  /\ last.op = "db_utils.convert_ml_to_oz" =>
       LowerText(last.ret) = convert_ml_to_oz(LowerText(last.line))

(***************************************************************************)
(* backfill_details_from_json.  The price of a record is a JSON string     *)
(* [str |-> text] or a JSON number [num |-> n].                            *)
(***************************************************************************)
\* price_str: "$" and the number for a positive number, the string itself
\* for a string, and "" otherwise.
PriceStr(item) ==
  LET price_val == Get(item, "price", [num |-> 0])
  IN  IF "num" \in DOMAIN price_val
      THEN IF price_val.num > 0 THEN <<"$">> \o IntText(price_val.num)
           ELSE <<>>
      ELSE IF IsStr(price_val) THEN price_val.str
      ELSE <<>>

\* A JSON list where a text is expected: no text equals it.
JsonList == <<"<list>">>

\* sqlite3 binds None and strings; a list raises.
Binds(v) == v # JsonList

\* The UPDATE that also files the recipe under its spirit.
UpdateDetailsAndCategory(st, item) ==
  IF st.tx.err THEN st
  ELSE LET name == Get(item, "name", None)
           hit == SelectIdByName(st.tx.db, name)
       IN  [tx |-> [st.tx EXCEPT !.db.recipes =
                      [i \in DOMAIN @ |->
                         IF @[i].id \in hit
                         THEN [@[i] EXCEPT
                                 !.description = Get(item, "description", <<>>),
                                 !.image_url = Get(item, "image_path", <<>>),
                                 !.price = PriceStr(item),
                                 !.spirit = Get(item, "spirit", <<>>),
                                 !.category = "Liquors"]
                         ELSE @[i]]],
            count |-> IF hit # {} THEN st.count + 1 ELSE st.count]

\* The body of the loop, for one item: UPDATE recipes SET description,
\* image_url, price, spirit WHERE name = ?, and the count of the items that
\* matched a row.
UpdateDetails(st, item) ==
  IF st.tx.err THEN st
  ELSE LET desc == Get(item, "description", <<>>)
           img == Get(item, "image_path", <<>>)
           spirit == Get(item, "spirit", <<>>)
           name == Get(item, "name", None)
           hit == SelectIdByName(st.tx.db, name)
       IN  IF ~(Binds(desc) /\ Binds(img) /\ Binds(spirit) /\ Binds(name))
           THEN [st EXCEPT !.tx.err = TRUE]
           ELSE [tx |-> [st.tx EXCEPT !.db.recipes =
                           [i \in DOMAIN @ |->
                              IF @[i].id \in hit
                              THEN [@[i] EXCEPT !.description = desc,
                                                !.image_url = img,
                                                !.price = PriceStr(item),
                                                !.spirit = spirit]
                              ELSE @[i]]],
                 count |-> IF hit # {} THEN st.count + 1 ELSE st.count]

RECURSIVE UpdateDetailsOfAll(_, _)
UpdateDetailsOfAll(st, data) ==
  IF data = <<>> THEN st
  ELSE UpdateDetailsOfAll(UpdateDetails(st, Head(data)), Tail(data))

\* backfill_details_from_json(): the store it leaves, the count it reports
\* and whether it ended in "Backfill failed".  The one commit follows the
\* loop; an exception leaves the connection uncommitted.
backfill_details_from_json(d, exists, data) ==
  LET st == UpdateDetailsOfAll([tx |-> Connect(d), count |-> 0], data)
  IN  IF ~exists THEN [db |-> d, count |-> 0, failed |-> FALSE]
      ELSE IF st.tx.err THEN [db |-> d, count |-> 0, failed |-> TRUE]
      ELSE [db |-> st.tx.db, count |-> st.count, failed |-> FALSE]

(***************************************************************************)
(* SpecBackfill: backfill_details_from_json run any number of times on the *)
(* snapshot menu.json holds, against the stores that migrate_json_to_db,   *)
(* save_new_recipe and delete_recipe build.                                *)
(***************************************************************************)
DetailA == [name |-> NameA, spirit |-> Gin, description |-> <<"d">>,
            price |-> [num |-> 8], image_path |-> <<"i">>,
            spec_recipe |-> <<[str |-> LineOz]>>]
DetailA2 == [name |-> NameA, price |-> [str |-> <<"9">>]]
DetailB == [name |-> NameB, spirit |-> RedWine, price |-> [num |-> 0]]
DetailNoName == [description |-> <<"x">>]
DetailBadDescription == [name |-> NameB, description |-> JsonList]

DetailSnapshots ==
  {<<DetailA>>, <<DetailA, DetailB>>, <<DetailA, DetailNoName, DetailA2>>,
   <<DetailB, DetailA2>>, <<DetailA, DetailBadDescription>>}

InitBackfill ==
  /\ db = EmptyDb
  /\ menu_exists \in BOOLEAN
  /\ menu_json \in DetailSnapshots
  /\ add_mode = NoSessions
  /\ edit_mode = NoSessions
  /\ editing_item = NoSessions
  /\ last = [op |-> "init"]

BackfillDetailsFromJson ==
  LET r == backfill_details_from_json(db, menu_exists, menu_json)
  IN  /\ db' = r.db
      /\ last' = [op |-> "backfill_details_from_json", count |-> r.count,
                  failed |-> r.failed,
                  again |-> last.op = "backfill_details_from_json"]
      /\ UNCHANGED <<menu_exists, menu_json, add_mode, edit_mode,
                     editing_item>>

NextBackfill ==
  \/ BackfillDetailsFromJson
  \/ MigrateJsonToDb
  \/ SaveNewRecipe
  \/ DeleteRecipe

SpecBackfill == InitBackfill /\ [][NextBackfill]_vars

\* The names of the records of a snapshot.
SnapshotNames(data) == {Get(data[i], "name", None) : i \in DOMAIN data}

\* C16: backfill_details_from_json changes only description, image_url,
\* price and spirit, and only of recipes whose name matches a snapshot
\* record: no recipe's id, name, category or instructions changes, no
\* recipe and no ingredient row is added or removed, and a second run on
\* the same snapshot leaves the store as the first run left it.
C16_BackfillFrame ==
  [][last'.op = "backfill_details_from_json" =>
       /\ DOMAIN db'.recipes = DOMAIN db.recipes
       /\ \A i \in DOMAIN db.recipes :
            LET old == db.recipes[i]
                new == db'.recipes[i]
            IN  /\ new.id = old.id
                /\ new.name = old.name
                /\ new.category = old.category
                /\ new.instructions = old.instructions
                /\ old.name \notin SnapshotNames(menu_json) => new = old
       /\ db'.recipe_ingredients = db.recipe_ingredients
       /\ db'.seq_recipes = db.seq_recipes
       /\ last.op = "backfill_details_from_json" => db' = db]_vars

\* A second run has followed a run that filled in the details of one
\* recipe and left another, whose name the snapshot does not hold, alone;
\* the store holds an ingredient row.
C16_Witness ==
  /\ last.op = "backfill_details_from_json"
  /\ last.again
  /\ last.count >= 1
  /\ \E i, j \in DOMAIN db.recipes :
       /\ db.recipes[i].name \in SnapshotNames(menu_json)
       /\ db.recipes[i].price = <<"$", "8">>
       /\ db.recipes[j].name \notin SnapshotNames(menu_json)
  /\ db.recipe_ingredients # <<>>

\* C17: after any sequence of save_new_recipe, update_whole_recipe,
\* delete_recipe and migrate_json_to_db calls, every ingredient row's
\* recipe_id is the id of a recipe of the store.
C17_NoOrphanIngredients ==
  \A i \in DOMAIN db.recipe_ingredients :
    db.recipe_ingredients[i].recipe_id \in AllIds(db.recipes)

\* One record is the other with, possibly, another is_cotw.
SameButFeatured(d, e) ==
  /\ DOMAIN d = DOMAIN e
  /\ \A k \in DOMAIN d \ {"is_cotw"} : d[k] = e[k]

\* C18: a saved edit-form submission, made while the record selected for
\* editing is in the menu, replaces exactly that record at its position:
\* every other record keeps its position and all its fields except
\* possibly is_cotw.
C18_EditReplacesSelected ==
  [][(/\ SavedSubmit(last')
      /\ last'.is_edit
      /\ Index(menu_json, editing_item[last'.s]) > 0)
     => /\ Len(menu_json') = Len(menu_json)
        /\ \E k \in 1..Len(menu_json) :
             /\ menu_json[k] = editing_item[last'.s]
             /\ menu_json'[k] = last'.entry
             /\ \A i \in 1..Len(menu_json) :
                  i # k => SameButFeatured(menu_json'[i], menu_json[i])]_vars

\* C19: after any sequence of Add New Spec, edit clicks, Cancel, saved and
\* failed submissions, add_mode and edit_mode are never both true, and
\* whenever edit_mode is true editing_item is a record, not None.
C19_ViewState ==
  \A s \in DOMAIN add_mode :
    /\ ~(add_mode[s] /\ edit_mode[s])
    /\ edit_mode[s] => editing_item[s] # NoItem

\* A submission with an empty name has failed in the edit form, which stays
\* open on its record, in a menu that submissions have filled.
C19_Witness ==
  /\ last.op = "submit"
  /\ last.name = <<>>
  /\ edit_mode[1]
  /\ ~add_mode[1]
  /\ editing_item[1] # NoItem
  /\ Len(menu_json) = MaxMenu

====
